---- MODULE Spec2Model ----
(***************************************************************************)
(* Model of server.c: a single-shot TCP server.  main() checks argc,       *)
(* creates a socket, binds it to the port given in argv[1], listens,       *)
(* accepts one connection, reads one message into buffer[256], prints it,  *)
(* writes the reply "I got your message" and returns 0.                    *)
(*                                                                         *)
(* The process is one sequential thread; pc is its position in main().     *)
(* The operating system and the peers are the environment: the listen      *)
(* queue (backlog), the accepted connection (conn), the ports other        *)
(* listeners hold, and the results the system calls return.                *)
(*                                                                         *)
(* Byte strings are sequences of byte values 0..255; buffer[i] of the C    *)
(* code is element i + 1 of the sequence buffer.  argv[1] is a sequence    *)
(* of one-character strings.  Host byte order is little-endian.            *)
(***************************************************************************)
EXTENDS Integers, Sequences, FiniteSets, TLC

(***************************************************************************)
(* Bounds of the model                                                     *)
(***************************************************************************)
LongLen == 300          \* length of the client message longer than the buffer
JunkNulAt == 7          \* index of the NUL in one of the stale stack images
MaxOverrun == 1         \* bytes printf may print beyond buffer[255]
MaxRefused == 1         \* refused connection attempts that are counted
MaxQueuedData == 1      \* connections waiting in the listen queue that carry data

(***************************************************************************)
(* Program constants                                                       *)
(***************************************************************************)
BufSize == 256          \* char buffer[256]
ReadMax == 255          \* read(newsockfd, buffer, 255)
ReplyLen == 18          \* write(newsockfd, "I got your message", 18)
Backlog == 5            \* listen(sockfd, 5)
Uninit == -99           \* content of a local that was declared but never assigned

\* "Here is the message: " (the printf format up to %s)
Prefix == <<72, 101, 114, 101, 32, 105, 115, 32, 116, 104, 101, 32,
            109, 101, 115, 115, 97, 103, 101, 58, 32>>
\* "\n" (the printf format after %s)
Newline == <<10>>
\* "I got your message"
Reply == <<73, 32, 103, 111, 116, 32, 121, 111, 117, 114, 32,
           109, 101, 115, 115, 97, 103, 101>>

Min(a, b) == IF a < b THEN a ELSE b

(***************************************************************************)
(* Inputs                                                                  *)
(***************************************************************************)
\* the strings tried as argv[1]
PortArgs == { <<"8", "0", "8", "1">>,            \* a free port
              <<"8", "0", "8", "0">>,            \* held by another listener
              <<"8", "0">>,                      \* privileged port
              <<"a", "b", "c">>,                 \* not a number
              <<"0">>,                           \* zero
              <<"-", "1">>,                      \* negative
              <<"7", "0", "0", "0", "0">> }      \* greater than 65535
\* command lines: argv[0] only, or argv[0] and argv[1]
CommandLines == { <<>> } \cup { <<a>> : a \in PortArgs }

\* ports another listener already holds
PortsInUse == { 8080 }

Fill(len, b) == [i \in 1..len |-> b]
\* messages a client may send
Messages == { <<72, 105>>,                \* "Hi"
              <<65, 0, 66>>,              \* a message with an embedded NUL
              Fill(ReadMax, 65),          \* exactly 255 bytes
              Fill(LongLen, 65) }         \* longer than the buffer

\* what a peer sends while it still waits in the listen queue: "Hi"
QueuedMessage == <<72, 105>>

\* images of the stack memory that buffer[] occupies when main() starts
JunkImages == { [i \in 1..BufSize |-> 0],
                [i \in 1..BufSize |-> 88],
                [i \in 1..BufSize |-> IF i = JunkNulAt + 1 THEN 0 ELSE 88] }

\* counts a successful write of ReplyLen bytes may return
WriteCounts == { 0, ReplyLen - 1, ReplyLen }

(***************************************************************************)
(* Pure functions                                                          *)
(***************************************************************************)
DigitVal == [c \in {"0", "1", "2", "3", "4", "5", "6", "7", "8", "9"} |->
               CASE c = "0" -> 0 [] c = "1" -> 1 [] c = "2" -> 2 [] c = "3" -> 3
                 [] c = "4" -> 4 [] c = "5" -> 5 [] c = "6" -> 6 [] c = "7" -> 7
                 [] c = "8" -> 8 [] c = "9" -> 9]
IsDigit(c) == c \in DOMAIN DigitVal
IsSpace(c) == c \in {" ", "\t", "\n"}

RECURSIVE AtoiDigits(_, _, _)
\* accumulate decimal digits of s from position i, stop at the first non-digit
AtoiDigits(s, i, acc) ==
    IF i > Len(s) \/ ~IsDigit(s[i]) THEN acc
    ELSE AtoiDigits(s, i + 1, acc * 10 + DigitVal[s[i]])

RECURSIVE SkipSpace(_, _)
SkipSpace(s, i) == IF i <= Len(s) /\ IsSpace(s[i]) THEN SkipSpace(s, i + 1) ELSE i

\* atoi(): leading white space, an optional sign, then digits; 0 if none
atoi(s) ==
    LET i == SkipSpace(s, 1)
    IN  IF i <= Len(s) /\ s[i] = "-" THEN 0 - AtoiDigits(s, i + 1, 0)
        ELSE IF i <= Len(s) /\ s[i] = "+" THEN AtoiDigits(s, i + 1, 0)
        ELSE AtoiDigits(s, i, 0)

\* conversion of an int to the uint16_t parameter of htons
ToU16(x) == x % 65536
\* exchange of the two bytes of a 16-bit value
Swap16(x) == (x % 256) * 256 + (x \div 256)
\* variant of htons: the port is stored in host byte order
htonsHostOrder(x) == ToU16(x)
\* htons() on a little-endian host
htons(x) == Swap16(ToU16(x))
\* the port number the kernel takes from sin_port
ntohs(x) == Swap16(x)

\* index of the first NUL of buf, BufSize if there is none (the scan of %s)
FirstNul(buf) ==
    LET Z == {i \in 0..(BufSize - 1) : buf[i + 1] = 0}
    IN  IF Z = {} THEN BufSize ELSE CHOOSE i \in Z : \A j \in Z : i <= j

\* the bytes buf[0..k-1] as a sequence
BufText(buf, k) == SubSeq(buf, 1, k)

\* memory as the process sees it: bytes never written keep the stale image
Resolve(buf, junk) == [i \in 1..BufSize |->
                          IF buf[i] = Uninit THEN junk[i] ELSE buf[i]]

(***************************************************************************)
(* State                                                                   *)
(***************************************************************************)
VARIABLES
    argv,        \* arguments after the program name (argc = Len(argv) + 1)
    pc,          \* position in main()
    sockfd, newsockfd, portNumber, sin_port, n, buffer,   \* locals of main()
    stdout,      \* bytes printed on standard output
    stderr,      \* diagnostics printed on standard error, one string each
    exitStatus,  \* -1 while running or killed, else the exit status
    calls,       \* system calls performed so far, in order
    failed,      \* the system call that returned -1, or "none"
    listening,   \* the socket is in the listening state
    boundPort,   \* port the kernel was asked to bind, -1 before bind
    backlog,     \* established connections waiting to be accepted
    conn,        \* the accepted connections, in order of acceptance
    refused      \* number of refused connection attempts (capped)

vars == <<argv, pc, sockfd, newsockfd, portNumber, sin_port, n, buffer,
          stdout, stderr, exitStatus, calls, failed, listening, boundPort,
          backlog, conn, refused>>

locals == <<sockfd, newsockfd, portNumber, sin_port, n, buffer>>
net == <<backlog, conn, refused>>

argc == Len(argv) + 1

Terminal == {"exited", "killed"}
Alive == pc \notin Terminal

\* a connection: what the peer sent, whether it closed, what the server
\* consumed (rd) and what the server wrote to it (wr)
NewConn == [data |-> <<>>, fin |-> FALSE, rd |-> 0, wr |-> <<>>]

Init ==
    /\ argv \in CommandLines
    /\ pc = "start"
    /\ sockfd = Uninit /\ newsockfd = Uninit /\ portNumber = Uninit
    /\ sin_port = Uninit /\ n = Uninit
    /\ buffer = [i \in 1..BufSize |-> Uninit]
    /\ stdout = <<>> /\ stderr = <<>>
    /\ exitStatus = -1
    /\ calls = <<>>
    /\ failed = "none"
    /\ listening = FALSE
    /\ boundPort = -1
    /\ backlog = <<>> /\ conn = <<>> /\ refused = 0


(***************************************************************************)
(* The process: one action per statement of main()                         *)
(***************************************************************************)
\* variant of error: the diagnostic is printed and the process exits with 0
errorExitZero(msg) ==
    /\ stderr' = Append(stderr, msg)
    /\ exitStatus' = 0
    /\ pc' = "exited"

\* error(): perror(msg); exit(1)
error(msg) ==
    /\ stderr' = Append(stderr, msg)
    /\ exitStatus' = 1
    /\ pc' = "exited"

\* variant of CheckArgs: the message is printed but exit(1) is missing
CheckArgsNoExit ==
    /\ pc = "start"
    /\ IF argc < 2
       THEN stderr' = Append(stderr, "ERROR, no port provided")
       ELSE UNCHANGED stderr
    /\ pc' = "socket"
    /\ UNCHANGED <<argv, locals, stdout, exitStatus, calls, failed, listening,
                   boundPort, net>>

\* if (argc < 2) { fprintf(stderr, ...); exit(1); }
CheckArgs ==
    /\ pc = "start"
    /\ IF argc < 2
       THEN /\ stderr' = Append(stderr, "ERROR, no port provided")
            /\ exitStatus' = 1
            /\ pc' = "exited"
       ELSE /\ pc' = "socket"
            /\ UNCHANGED <<stderr, exitStatus>>
    /\ UNCHANGED <<argv, locals, stdout, calls, failed, listening, boundPort, net>>

\* sockfd = socket(AF_INET, SOCK_STREAM, 0) returns a descriptor
SocketOk ==
    /\ pc = "socket"
    /\ calls' = Append(calls, "socket")
    /\ sockfd' = 3
    /\ pc' = "setaddr"
    /\ UNCHANGED <<argv, newsockfd, portNumber, sin_port, n, buffer, stdout,
                   stderr, exitStatus, failed, listening, boundPort, net>>

\* socket() returns -1: error("ERROR opening Socket")
SocketFail ==
    /\ pc = "socket"
    /\ calls' = Append(calls, "socket")
    /\ sockfd' = -1
    /\ failed' = "socket"
    /\ error("ERROR opening Socket")
    /\ UNCHANGED <<argv, newsockfd, portNumber, sin_port, n, buffer, stdout,
                   listening, boundPort, net>>

\* portNumber = atoi(argv[1]); serv_addr.sin_port = htons(portNumber)
SetAddr ==
    /\ pc = "setaddr"
    /\ portNumber' = atoi(argv[1])
    /\ sin_port' = htons(portNumber')
    /\ pc' = "bind"
    /\ UNCHANGED <<argv, sockfd, newsockfd, n, buffer, stdout, stderr,
                   exitStatus, calls, failed, listening, boundPort, net>>

\* the kernel refuses a port another listener holds; a port below 1024 is
\* refused when the process lacks the privilege; port 0 asks for any free port
BindMayFail(port) == port \in PortsInUse \/ port \in 1..1023
BindMaySucceed(port) == port \notin PortsInUse

\* bind(sockfd, &serv_addr, sizeof(serv_addr)) returns 0
BindOk ==
    /\ pc = "bind"
    /\ BindMaySucceed(ntohs(sin_port))
    /\ calls' = Append(calls, "bind")
    /\ boundPort' = ntohs(sin_port)
    /\ pc' = "listen"
    /\ UNCHANGED <<argv, locals, stdout, stderr, exitStatus, failed,
                   listening, net>>

\* variant of BindFail: the result of bind is not looked at
BindFailIgnored ==
    /\ pc = "bind"
    /\ BindMayFail(ntohs(sin_port))
    /\ calls' = Append(calls, "bind")
    /\ boundPort' = ntohs(sin_port)
    /\ failed' = "bind"
    /\ pc' = "listen"
    /\ UNCHANGED <<argv, locals, stdout, stderr, exitStatus, listening, net>>

\* bind() returns -1: error("ERROR on binding")
BindFail ==
    /\ pc = "bind"
    /\ BindMayFail(ntohs(sin_port))
    /\ calls' = Append(calls, "bind")
    /\ boundPort' = ntohs(sin_port)
    /\ failed' = "bind"
    /\ error("ERROR on binding")
    /\ UNCHANGED <<argv, locals, stdout, listening, net>>

\* listen(sockfd, 5) on the bound socket; the result is not looked at
Listen ==
    /\ pc = "listen"
    /\ calls' = Append(calls, "listen")
    /\ listening' = TRUE
    /\ pc' = "accept"
    /\ UNCHANGED <<argv, locals, stdout, stderr, exitStatus, failed,
                   boundPort, net>>

\* newsockfd = accept(...) returns the connection at the head of the queue;
\* blocks while the queue is empty
AcceptOk ==
    /\ pc = "accept"
    /\ listening
    /\ backlog # <<>>
    /\ calls' = Append(calls, "accept")
    /\ conn' = Append(conn, Head(backlog))
    /\ backlog' = Tail(backlog)
    /\ newsockfd' = 3 + Len(conn')
    /\ pc' = "bzero"
    /\ UNCHANGED <<argv, sockfd, portNumber, sin_port, n, buffer, stdout,
                   stderr, exitStatus, failed, listening, boundPort, refused>>

\* accept() returns -1: error("ERROR on acccept")
AcceptFail ==
    /\ pc = "accept"
    /\ calls' = Append(calls, "accept")
    /\ newsockfd' = -1
    /\ failed' = "accept"
    /\ error("ERROR on acccept")
    /\ UNCHANGED <<argv, sockfd, portNumber, sin_port, n, buffer, stdout,
                   listening, boundPort, net>>

\* bzero(buffer[256]): the argument is the char one past the end of the
\* buffer, taken as an address, and no length is passed.  The call either
\* faults or clears nothing of buffer[].
BzeroBuffer ==
    /\ pc = "bzero"
    /\ pc' \in {"read", "killed"}
    /\ UNCHANGED <<argv, locals, stdout, stderr, exitStatus, calls, failed,
                   listening, boundPort, net>>

\* the accepted connection newsockfd refers to
Cur == Len(conn)
Avail == Len(conn[Cur].data) - conn[Cur].rd

\* numbers of bytes read(newsockfd, buffer, 255) may return (> 0): what has
\* arrived, at most 255; a message may arrive in pieces
ReadCounts == IF Avail > 0 THEN {1, Min(ReadMax, Avail)} ELSE {}

\* n = read(newsockfd, buffer, 255) returns k > 0 bytes
ReadData ==
    /\ pc = "read"
    /\ \E k \in ReadCounts :
          /\ n' = k
          /\ buffer' = [i \in 1..BufSize |->
                           IF i <= k THEN conn[Cur].data[conn[Cur].rd + i]
                           ELSE buffer[i]]
          /\ conn' = [conn EXCEPT ![Cur].rd = @ + k]
    /\ calls' = Append(calls, "read")
    /\ pc' = "printf"
    /\ UNCHANGED <<argv, sockfd, newsockfd, portNumber, sin_port, stdout,
                   stderr, exitStatus, failed, listening, boundPort,
                   backlog, refused>>

\* variant of ReadEof: a result of 0 is waited out instead of accepted
ReadEofRetry ==
    /\ pc = "read"
    /\ Avail = 0
    /\ conn[Cur].fin
    /\ n' = 0
    /\ UNCHANGED <<argv, pc, sockfd, newsockfd, portNumber, sin_port, buffer,
                   stdout, stderr, exitStatus, calls, failed, listening,
                   boundPort, net>>

\* read() returns 0: the peer closed and nothing is left to read
ReadEof ==
    /\ pc = "read"
    /\ Avail = 0
    /\ conn[Cur].fin
    /\ n' = 0
    /\ calls' = Append(calls, "read")
    /\ pc' = "printf"
    /\ UNCHANGED <<argv, sockfd, newsockfd, portNumber, sin_port, buffer,
                   stdout, stderr, exitStatus, failed, listening, boundPort, net>>

\* read() returns -1: error("ERROR reading from socket")
ReadFail ==
    /\ pc = "read"
    /\ n' = -1
    /\ calls' = Append(calls, "read")
    /\ failed' = "read"
    /\ error("ERROR reading from socket")
    /\ UNCHANGED <<argv, sockfd, newsockfd, portNumber, sin_port, buffer,
                   stdout, listening, boundPort, net>>

\* printf("Here is the message: %s\n", buffer): %s prints up to the first
\* NUL.  Bytes of buffer[] that were never written hold stale stack content.
\* Without a NUL in buffer[] printf runs past its end: it faults, or prints
\* what follows until a NUL turns up.
Printf ==
    /\ pc = "printf"
    /\ \E junk \in JunkImages :
         LET mem == Resolve(buffer, junk)
             z   == FirstNul(mem)
         IN  /\ buffer' = mem
             /\ IF z < BufSize
                THEN /\ stdout' = stdout \o Prefix \o BufText(mem, z) \o Newline
                     /\ pc' = "write"
                ELSE \/ /\ pc' = "killed"
                        /\ UNCHANGED stdout
                     \/ /\ \E k \in 0..MaxOverrun :
                              stdout' = stdout \o Prefix \o BufText(mem, BufSize)
                                               \o Fill(k, 88) \o Newline
                        /\ pc' = "write"
    /\ UNCHANGED <<argv, sockfd, newsockfd, portNumber, sin_port, n, stderr,
                   exitStatus, calls, failed, listening, boundPort, net>>

\* variant of WriteOk: a count below 18 is reported as an error
WriteOkStrict ==
    /\ pc = "write"
    /\ calls' = Append(calls, "write")
    /\ \E k \in WriteCounts :
          /\ n' = k
          /\ conn' = [conn EXCEPT ![Cur].wr = @ \o SubSeq(Reply, 1, k)]
          /\ IF k < ReplyLen
             THEN error("ERROR writing socket")
             ELSE pc' = "return" /\ UNCHANGED <<stderr, exitStatus>>
    /\ UNCHANGED <<argv, sockfd, newsockfd, portNumber, sin_port, buffer,
                   stdout, failed, listening, boundPort, backlog, refused>>

\* n = write(newsockfd, "I got your message", 18) returns k >= 0
WriteOk ==
    /\ pc = "write"
    /\ \E k \in WriteCounts :
          /\ n' = k
          /\ conn' = [conn EXCEPT ![Cur].wr = @ \o SubSeq(Reply, 1, k)]
    /\ calls' = Append(calls, "write")
    /\ pc' = "return"
    /\ UNCHANGED <<argv, sockfd, newsockfd, portNumber, sin_port, buffer,
                   stdout, stderr, exitStatus, failed, listening, boundPort,
                   backlog, refused>>

\* write() returns -1: error("ERROR writing socket")
WriteFail ==
    /\ pc = "write"
    /\ n' = -1
    /\ calls' = Append(calls, "write")
    /\ failed' = "write"
    /\ error("ERROR writing socket")
    /\ UNCHANGED <<argv, sockfd, newsockfd, portNumber, sin_port, buffer,
                   stdout, listening, boundPort, net>>

\* variant of Return: the server goes back to accept the next connection
ReturnLoop ==
    /\ pc = "return"
    /\ pc' = "accept"
    /\ UNCHANGED <<argv, locals, stdout, stderr, exitStatus, calls, failed,
                   listening, boundPort, net>>

\* return 0
Return ==
    /\ pc = "return"
    /\ exitStatus' = 0
    /\ pc' = "exited"
    /\ UNCHANGED <<argv, locals, stdout, stderr, calls, failed, listening,
                   boundPort, net>>

(***************************************************************************)
(* The environment: peers and the listen queue                             *)
(***************************************************************************)
QueuedWithData == {i \in 1..Len(backlog) : backlog[i].data # <<>>}

\* a peer connects: queued while the listen queue has room, refused otherwise
Connect ==
    /\ Alive
    /\ listening
    /\ IF Len(backlog) < Backlog
       THEN /\ backlog' = Append(backlog, NewConn)
            /\ UNCHANGED refused
       ELSE /\ refused < MaxRefused
            /\ refused' = refused + 1
            /\ UNCHANGED backlog
    /\ UNCHANGED <<argv, pc, locals, stdout, stderr, exitStatus, calls,
                   failed, listening, boundPort, conn>>

\* the peer of the accepted connection sends a message
PeerSend ==
    /\ Alive
    /\ conn # <<>>
    /\ conn[Cur].data = <<>>
    /\ ~conn[Cur].fin
    /\ \E m \in Messages : conn' = [conn EXCEPT ![Cur].data = m]
    /\ UNCHANGED <<argv, pc, locals, stdout, stderr, exitStatus, calls,
                   failed, listening, boundPort, backlog, refused>>

\* the peer of the accepted connection closes it
PeerClose ==
    /\ Alive
    /\ conn # <<>>
    /\ ~conn[Cur].fin
    /\ conn' = [conn EXCEPT ![Cur].fin = TRUE]
    /\ UNCHANGED <<argv, pc, locals, stdout, stderr, exitStatus, calls,
                   failed, listening, boundPort, backlog, refused>>

\* a peer still waiting in the listen queue sends a message
QueuedSend ==
    /\ Alive
    /\ Cardinality(QueuedWithData) < MaxQueuedData
    /\ \E i \in 1..Len(backlog) :
          /\ backlog[i].data = <<>>
          /\ ~backlog[i].fin
          /\ backlog' = [backlog EXCEPT ![i].data = QueuedMessage]
    /\ UNCHANGED <<argv, pc, locals, stdout, stderr, exitStatus, calls,
                   failed, listening, boundPort, conn, refused>>

(***************************************************************************)
(* Specifications                                                          *)
(***************************************************************************)
\* steps in which a system call returns without error, or no call is made
Proceed ==
    \/ CheckArgs \/ SocketOk \/ SetAddr \/ BindOk \/ BindFail \/ Listen
    \/ AcceptOk \/ BzeroBuffer \/ ReadData \/ ReadEof \/ Printf \/ WriteOk
    \/ Return

\* steps in which a system call reports an error the model does not derive
\* from the state of the environment
Fault == SocketFail \/ AcceptFail \/ ReadFail \/ WriteFail

Peers == Connect \/ PeerSend \/ PeerClose \/ QueuedSend

Next == Proceed \/ Fault \/ Peers

Spec == Init /\ [][Next]_vars

\* the scheduler runs the process whenever it can proceed; a peer eventually
\* connects, and the connected peer eventually sends data or closes
LiveSpec ==
    /\ Spec
    /\ WF_vars(Proceed)
    /\ WF_vars(Connect)
    /\ WF_vars(PeerSend \/ PeerClose)

TypeOK ==
    /\ pc \in {"start", "socket", "setaddr", "bind", "listen", "accept",
               "bzero", "read", "printf", "write", "return", "exited", "killed"}
    /\ exitStatus \in {-1, 0, 1}
    /\ Len(backlog) <= Backlog


(***************************************************************************)
(* Vocabulary of the properties                                            *)
(***************************************************************************)
\* the system calls of main() in program order
AllCalls == <<"socket", "bind", "listen", "accept", "read", "write">>
Called(c) == \E i \in DOMAIN calls : calls[i] = c
TimesCalled(c) == Cardinality({i \in DOMAIN calls : calls[i] = c})
IsPrefix(s, t) == Len(s) <= Len(t) /\ SubSeq(t, 1, Len(s)) = s
HasNoNul(m) == \A i \in DOMAIN m : m[i] # 0

\* the diagnostic of each checked system call
Diagnostic == [c \in {"socket", "bind", "accept", "read", "write"} |->
                 CASE c = "socket" -> "ERROR opening Socket"
                   [] c = "bind"   -> "ERROR on binding"
                   [] c = "accept" -> "ERROR on acccept"
                   [] c = "read"   -> "ERROR reading from socket"
                   [] c = "write"  -> "ERROR writing socket"]

\* the text printed between the prefix and the newline
PrintedText == SubSeq(stdout, Len(Prefix) + 1, Len(stdout) - 1)
HasPrinted == stdout # <<>>

\* read() was called and returned a count >= 0
ReadReturned == Called("read") /\ failed # "read"
\* write() was called and returned a count >= 0
WriteReturned == Called("write") /\ failed # "write"

\* order of the positions of main()
Rank(p) ==
    CASE p = "start" -> 0 [] p = "socket" -> 1 [] p = "setaddr" -> 2
      [] p = "bind" -> 3 [] p = "listen" -> 4 [] p = "accept" -> 5
      [] p = "bzero" -> 6 [] p = "read" -> 7 [] p = "printf" -> 8
      [] p = "write" -> 9 [] p = "return" -> 10 [] p = "exited" -> 11
      [] p = "killed" -> 11

\* the states of the specification's sequence
Phase(p) ==
    CASE p \in {"start", "socket", "setaddr", "bind"} -> "start"
      [] p = "listen" -> "bound"
      [] p = "accept" -> "listening"
      [] p \in {"bzero", "read", "printf", "write"} -> "connected"
      [] p = "return" -> "exchanged"
      [] p \in Terminal -> "terminated"
PhaseRank(ph) ==
    CASE ph = "start" -> 0 [] ph = "bound" -> 1 [] ph = "listening" -> 2
      [] ph = "connected" -> 3 [] ph = "exchanged" -> 4 [] ph = "terminated" -> 5

\* argv[1] is the decimal numeral of a port 1..65535
IsValidPortArg(s) ==
    /\ s # <<>>
    /\ \A i \in DOMAIN s : IsDigit(s[i])
    /\ AtoiDigits(s, 1, 0) \in 1..65535
InvalidPortGiven == argc >= 2 /\ ~IsValidPortArg(argv[1])

(***************************************************************************)
(* C1: when every system call succeeds and the client's message m of 1 to  *)
(* 255 bytes of text arrives in one read, standard output is exactly       *)
(* "Here is the message: " m "\n", the connection received exactly the 18  *)
(* bytes of the reply, and the exit status is 0.                           *)
(* As claimed; the code does not terminate the buffer after the n bytes.   *)
(***************************************************************************)
C1_AsClaimed ==
    ( /\ pc \in Terminal
      /\ calls = AllCalls
      /\ failed = "none"
      /\ n = ReplyLen
      /\ Len(conn[1].data) \in 1..ReadMax
      /\ HasNoNul(conn[1].data)
      /\ conn[1].rd = Len(conn[1].data) )
    => /\ stdout = Prefix \o conn[1].data \o Newline
       /\ conn[1].wr = Reply
       /\ exitStatus = 0

(***************************************************************************)
(* C2: without a port argument the program prints "ERROR, no port          *)
(* provided" on standard error, exits with status 1 and performs no        *)
(* socket operation.                                                       *)
(***************************************************************************)
C2_NoPortNoSocket ==
    argc < 2 =>
       /\ calls = <<>>
       /\ stdout = <<>>
       /\ backlog = <<>> /\ conn = <<>>
       /\ pc \in {"start", "exited"}
       /\ pc = "exited" => /\ exitStatus = 1
                           /\ stderr = <<"ERROR, no port provided">>
C2_Witness == argc < 2 /\ pc = "exited"

(***************************************************************************)
(* C3: when socket, bind, accept, read or write returns a negative result  *)
(* the process prints exactly one diagnostic, the one of that call, exits  *)
(* with status 1, and executes no later step: the failed call is the last  *)
(* call made, nothing is printed or written after it.                      *)
(***************************************************************************)
C3_FailureIsFatal ==
    failed # "none" =>
       /\ pc = "exited"
       /\ exitStatus = 1
       /\ stderr = <<Diagnostic[failed]>>
       /\ calls[Len(calls)] = failed
       /\ TimesCalled(failed) = 1
       /\ IsPrefix(calls, AllCalls)
       /\ failed # "write" => stdout = <<>>
       /\ \A i \in DOMAIN conn : conn[i].wr = <<>>
       /\ failed \in {"socket", "bind", "accept"} =>
             \A i \in DOMAIN conn : conn[i].rd = 0
C3_Witness ==
    /\ failed = "read" /\ pc = "exited"
    /\ conn # <<>> /\ conn[1].data # <<>>

(***************************************************************************)
(* C4: whatever the length of the client's message, at most 255 bytes are  *)
(* read into the buffer and the text printed after the prefix is at most   *)
(* 255 bytes long.                                                         *)
(* As claimed; the printed text is longer when no NUL ends the buffer.     *)
(***************************************************************************)
C4_AsClaimed ==
    /\ \A i \in DOMAIN conn : conn[i].rd <= ReadMax
    /\ Len(buffer) = BufSize
    /\ HasPrinted => Len(PrintedText) <= ReadMax

(***************************************************************************)
(* C5: when read returns 0 the run is not an error and does not crash:     *)
(* the program prints the prefix with an empty message text, goes on to    *)
(* the write, and does not report "ERROR reading from socket".             *)
(* As claimed; the printed text is what the stale buffer holds.            *)
(***************************************************************************)
C5_AsClaimed ==
    (ReadReturned /\ conn[1].rd = 0 /\ pc # "printf") =>
       /\ pc # "killed"
       /\ stdout = Prefix \o Newline
       /\ "ERROR reading from socket" \notin {stderr[i] : i \in DOMAIN stderr}
       /\ pc \in {"write", "return", "exited"}

(***************************************************************************)
(* C6: accept is called at most once and at most one connection is ever    *)
(* accepted; every other connection attempt stays in the listen queue or   *)
(* is refused, and is never read from or written to.                       *)
(***************************************************************************)
C6_SingleConnection ==
    /\ TimesCalled("accept") <= 1
    /\ Len(conn) <= 1
    /\ \A i \in DOMAIN backlog : backlog[i].rd = 0 /\ backlog[i].wr = <<>>
    /\ (TimesCalled("read") <= 1 /\ TimesCalled("write") <= 1)
C6_Witness ==
    /\ pc = "exited" /\ exitStatus = 0
    /\ Len(conn) = 1
    /\ refused > 0
    /\ \E i \in DOMAIN backlog : backlog[i].data # <<>>

(***************************************************************************)
(* C7: the program only moves forward through start, bound, listening,     *)
(* connected, exchanged, terminated; no position is entered twice; accept  *)
(* is attempted only after bind succeeded and listen was called, read only *)
(* after accept succeeded, write only after read succeeded and the message *)
(* was printed, and status 0 only after write returned a count >= 0.       *)
(***************************************************************************)
C7_Order ==
    /\ IsPrefix(calls, AllCalls)
    /\ Called("accept") => sockfd >= 0 /\ failed \notin {"socket", "bind"}
    /\ Called("read") => newsockfd >= 0 /\ failed # "accept"
    /\ Called("write") => ReadReturned /\ HasPrinted
    /\ exitStatus = 0 => WriteReturned /\ n >= 0 /\ calls = AllCalls
C7_Forward ==
    /\ Rank(pc') > Rank(pc)
    /\ PhaseRank(Phase(pc')) >= PhaseRank(Phase(pc))
C7_LinearSequence == []C7_Order /\ [][C7_Forward]_pc
C7_Witness == pc = "exited" /\ exitStatus = 0 /\ calls = AllCalls

(***************************************************************************)
(* C8: for a port argument that is not a valid port the program does not   *)
(* reject it, passes atoi's value truncated to 16 bits to bind, and the    *)
(* run ends with bind failing and exit status 1.                           *)
(* As claimed; bind accepts port 0, 65535 and 4464.                        *)
(***************************************************************************)
C8_AsClaimed ==
    (InvalidPortGiven /\ Called("bind")) =>
       /\ boundPort = ToU16(atoi(argv[1]))
       /\ failed = "bind"
       /\ pc = "exited" /\ exitStatus = 1
       /\ ~listening

(***************************************************************************)
(* C8 amended: for a port argument that is not a valid port the program    *)
(* does not reject it and passes atoi's value truncated to 16 bits to      *)
(* bind; the run ends with exit status 1 at bind only if bind fails, and   *)
(* when bind accepts that port the run goes on to listen.                  *)
(***************************************************************************)
C8_PassedThrough ==
    InvalidPortGiven =>
       /\ "ERROR, no port provided" \notin {stderr[i] : i \in DOMAIN stderr}
       /\ pc = "bind" => portNumber = atoi(argv[1])
       /\ Called("bind") =>
            /\ boundPort = ToU16(atoi(argv[1]))
            /\ failed = "bind" =>
                  /\ pc = "exited" /\ exitStatus = 1
                  /\ ~listening /\ ~Called("listen")
            /\ failed # "bind" => Rank(pc) >= Rank("listen")
       /\ listening => boundPort = ToU16(atoi(argv[1]))
C8_Witness ==
    /\ InvalidPortGiven
    /\ listening
    /\ boundPort = 4464

(***************************************************************************)
(* C9: the process can wait only in accept and in read; it waits in accept *)
(* as long as no peer has connected and in read as long as the peer has    *)
(* neither sent nor closed; when a peer eventually connects and eventually *)
(* sends or closes, every run terminates.                                  *)
(***************************************************************************)
C9_WaitsOnlyInAcceptRead == (Alive /\ ~ENABLED Proceed) => pc \in {"accept", "read"}
C9_WaitsForPeer ==
    /\ (pc = "accept" /\ backlog = <<>>) => ~ENABLED Proceed
    /\ (pc = "read" /\ conn[Cur].data = <<>> /\ ~conn[Cur].fin) => ~ENABLED Proceed
C9_BlockingAndTermination ==
    /\ []C9_WaitsOnlyInAcceptRead
    /\ []C9_WaitsForPeer
    /\ <>(~Alive)
C9_Witness == pc = "read" /\ conn[Cur].data = <<>> /\ ~conn[Cur].fin

(***************************************************************************)
(* C10: the reply is written once; a count k with 0 <= k < 18 is not an    *)
(* error and is not retried: the process exits with status 0 although the  *)
(* connection received only the first k bytes of the reply.                *)
(***************************************************************************)
C10_ShortWriteAccepted ==
    WriteReturned =>
       /\ TimesCalled("write") = 1
       /\ n \in 0..ReplyLen
       /\ conn[1].wr = SubSeq(Reply, 1, n)
       /\ stderr = <<>>
       /\ pc \in {"return", "exited"}
       /\ pc = "exited" => exitStatus = 0
C10_Witness ==
    /\ pc = "exited" /\ exitStatus = 0
    /\ n < ReplyLen
    /\ Len(conn[1].wr) < ReplyLen

====
